---- MODULE Spec2Model ----
(***************************************************************************)
(* Model of the chat relay Worker (src/src/index.ts) and of the browser    *)
(* client (src/public/chat.js).                                            *)
(*                                                                         *)
(* SpecServer: the Worker with an arbitrary HTTP / WebSocket peer.         *)
(* Spec:       the browser client talking to the Worker over a WebSocket.  *)
(***************************************************************************)
EXTENDS Integers, Sequences, FiniteSets, TLC

(***************************************************************************)
(* Bounds of the model.                                                    *)
(***************************************************************************)
\* longest message list a peer puts in a request body or frame
MaxLen == 2
\* connections the browser client makes in one run
MaxSockets == 2
\* sockets an arbitrary peer opens in one run
MaxPeerSockets == 1
\* user messages the browser client sends in one run
MaxTurns == 2
\* WebSocket messages of the peer awaiting the inference API at a time
MaxInflight == 1
\* HTTP chat requests awaiting the inference API at a time
MaxHttpCalls == 1
\* frames of an arbitrary server the browser client takes into chatHistory or
\* has yet to read
MaxReplies == 1
\* WebSocket messages awaiting the inference API at a time in SpecSocket
MaxPending == 2

(***************************************************************************)
(* Program constants.                                                      *)
(***************************************************************************)
MODEL_ID == "@cf/meta/llama-3.3-70b-instruct-fp8-fast"
SYSTEM_PROMPT == "You are a helpful, friendly assistant. Provide concise and accurate responses."
MAX_TOKENS == 1024
NO_RESPONSE == "[No response]"
APOLOGY == "Sorry, there was an error processing your request."
HTTP_ERROR == "Failed to process request"

(***************************************************************************)
(* Chat messages and message lists.                                        *)
(***************************************************************************)
ChatMessage(role, content) == [role |-> role, content |-> content]

DefaultSystemMessage == ChatMessage("system", SYSTEM_PROMPT)

\* the messages a peer composes its lists from
PeerMessages ==
    { ChatMessage("system", "Be terse."),
      ChatMessage("user", "hi"),
      ChatMessage("assistant", "yo") }

SeqsUpTo(S, n) == UNION { [1..k -> S] : k \in 0..n }

MessageLists == SeqsUpTo(PeerMessages, MaxLen)

(***************************************************************************)
(* JSON texts and the values they parse to.  A text is empty, not JSON at  *)
(* all, or the JSON text of a value; of a value the handlers only look at  *)
(* whether it is null, and at its property `messages`.                     *)
(***************************************************************************)
JsonNull == [k |-> "null"]
JsonNumber == [k |-> "number"]
JsonObject(m) == [k |-> "object", messages |-> m]

Absent == [p |-> "absent"]
NullProp == [p |-> "null"]
ArrayProp(items) == [p |-> "array", items |-> items]

JsonValues ==
    { JsonNull, JsonNumber, JsonObject(Absent), JsonObject(NullProp) }
    \cup { JsonObject(ArrayProp(l)) : l \in MessageLists }

EmptyText == [t |-> "empty"]
GarbageText == [t |-> "garbage"]
JsonText(v) == [t |-> "json", v |-> v]

Texts == { EmptyText, GarbageText } \cup { JsonText(v) : v \in JsonValues }

Threw == [threw |-> TRUE]
Returned(v) == [threw |-> FALSE, v |-> v]

\* JSON.parse / Request.json(): throws on a text that is not JSON
JsonParse(text) ==
    IF text.t = "json" THEN Returned(text.v) ELSE Threw

\* variant of DestructureMessages without the `= []` default
DestructureMessages_NoDefault(v) ==
    IF v.k = "null" THEN Threw
    ELSE IF v.k = "object" THEN Returned(v.messages)
    ELSE Returned(Absent)

\* const { messages = [] } = <value>: throws on null, takes the default for
\* a value without the property, keeps any other property value (null too)
DestructureMessages(v) ==
    IF v.k = "null" THEN Threw
    ELSE IF v.k = "object" /\ v.messages.p # "absent" THEN Returned(v.messages)
    ELSE Returned(ArrayProp(<<>>))

\* variant of HasSystem that looks at the first entry only
HasSystem_FirstOnly(messages) ==
    Len(messages) > 0 /\ messages[1].role = "system"

\* messages.some((msg) => msg.role === "system")
HasSystem(messages) ==
    \E i \in 1..Len(messages) : messages[i].role = "system"

\* variant of Unshift that pushes at the end
Unshift_AtEnd(messages) == messages \o <<DefaultSystemMessage>>

\* messages.unshift({ role: "system", content: SYSTEM_PROMPT })
Unshift(messages) == <<DefaultSystemMessage>> \o messages

\* "Add system prompt if not present"
AddSystemPrompt(messages) ==
    IF ~HasSystem(messages) THEN Unshift(messages) ELSE messages

\* the try block of either handler up to the inference call: parse the text,
\* take `messages`, add the system prompt.  `.some` of a non-array throws.
PrepareMessages(text) ==
    LET parsed == JsonParse(text) IN
    IF parsed.threw THEN Threw
    ELSE LET d == DestructureMessages(parsed.v) IN
         IF d.threw THEN Threw
         ELSE IF d.v.p # "array" THEN Threw
         ELSE Returned([input |-> d.v.items, messages |-> AddSystemPrompt(d.v.items)])

(***************************************************************************)
(* WebSocket payloads.  event.data is a string or an ArrayBuffer; an       *)
(* ArrayBuffer holds the UTF-8 bytes of a text or bytes that are no valid  *)
(* UTF-8, which TextDecoder turns into replacement characters.             *)
(***************************************************************************)
StringData(text) == [bin |-> FALSE, utf8 |-> TRUE, text |-> text]
BufferData(text) == [bin |-> TRUE, utf8 |-> TRUE, text |-> text]
InvalidBuffer == [bin |-> TRUE, utf8 |-> FALSE, text |-> EmptyText]

\* the texts a peer also sends as binary frames
BinaryTexts ==
    { EmptyText, JsonText(JsonNull), JsonText(JsonObject(Absent)),
      JsonText(JsonObject(ArrayProp(<<ChatMessage("user", "hi")>>))) }

WsData ==
    { StringData(t) : t \in Texts } \cup { BufferData(t) : t \in BinaryTexts }
    \cup { InvalidBuffer }

\* dataString instanceof ArrayBuffer ? new TextDecoder().decode(dataString)
DecodeData(data) ==
    IF data.bin
    THEN IF data.utf8 THEN data.text ELSE GarbageText
    ELSE data.text

(***************************************************************************)
(* Results of the inference API and the reply text taken from them.        *)
(***************************************************************************)
StringProp(s) == [p |-> "string", s |-> s]
NumberProp == [p |-> "number"]

AiString(s) == [k |-> "string", s |-> s]
AiNull == [k |-> "null"]
AiNumber == [k |-> "number"]
AiObject(response, result) ==
    [k |-> "object", response |-> response, result |-> result]

AiResults ==
    { AiString("hello"), AiString(""), AiNull, AiNumber }
    \cup { AiObject(r1, r2) :
             r1 \in { Absent, NumberProp, StringProp("from response") },
             r2 \in { Absent, NumberProp, StringProp("from result") } }

\* variant of ExtractText that probes `result` before `response`
ExtractText_ResultFirst(aiResponse) ==
    IF aiResponse.k = "string" THEN aiResponse.s
    ELSE IF aiResponse.k = "object"
    THEN IF aiResponse.result.p = "string" THEN aiResponse.result.s
         ELSE IF aiResponse.response.p = "string" THEN aiResponse.response.s
         ELSE NO_RESPONSE
    ELSE NO_RESPONSE

\* "aiResponse may have different shapes; try to extract the text"
ExtractText(aiResponse) ==
    IF aiResponse.k = "string" THEN aiResponse.s
    ELSE IF aiResponse.k = "object"
    THEN IF aiResponse.response.p = "string" THEN aiResponse.response.s
         ELSE IF aiResponse.result.p = "string" THEN aiResponse.result.s
         ELSE NO_RESPONSE
    ELSE NO_RESPONSE

\* JSON.stringify({ response: text })
ResponseFrame(text) ==
    JsonText([k |-> "object", response |-> StringProp(text)])

ApologyFrame == ResponseFrame(APOLOGY)

(***************************************************************************)
(* HTTP requests and responses.  A path is the sequence of its characters. *)
(***************************************************************************)
PathRoot == <<"/">>
PathWs == <<"/", "w", "s">>
PathWsSlash == <<"/", "w", "s", "/">>
PathIndex == <<"/", "i", "n", "d", "e", "x">>
PathUnknown == <<"/", "u", "n", "k", "n", "o", "w", "n">>
PathApi == <<"/", "a", "p", "i">>
ApiPrefix == <<"/", "a", "p", "i", "/">>
PathApiChat == <<"/", "a", "p", "i", "/", "c", "h", "a", "t">>
PathApiChatSlash == <<"/", "a", "p", "i", "/", "c", "h", "a", "t", "/">>
PathApiOther == <<"/", "a", "p", "i", "/", "x">>

Paths ==
    { PathRoot, PathWs, PathWsSlash, PathIndex, PathUnknown, PathApi, ApiPrefix,
      PathApiChat, PathApiChatSlash, PathApiOther }

Methods == { "GET", "POST", "DELETE" }

Request(path, method, upgrade, body) ==
    [path |-> path, method |-> method, upgrade |-> upgrade, body |-> body]

\* the Upgrade header is looked at on /ws only, the body on POST /api/chat only
Requests ==
    { Request(p, m, "absent", EmptyText) : p \in Paths, m \in Methods }
    \cup { Request(PathWs, "GET", u, EmptyText) : u \in { "websocket", "h2c" } }
    \cup { Request(PathApiChat, "POST", "absent", b) : b \in Texts }

UpgradeRequest == Request(PathWs, "GET", "websocket", EmptyText)

\* url.pathname.startsWith(prefix)
StartsWith(path, prefix) ==
    /\ Len(path) >= Len(prefix)
    /\ SubSeq(path, 1, Len(prefix)) = prefix

\* variant of Route that tests for a static asset before /ws
Route_AssetsFirst(req) ==
    IF req.path = PathRoot \/ ~StartsWith(req.path, ApiPrefix) THEN "assets"
    ELSE IF req.path = PathWs THEN "ws"
    ELSE IF req.path = PathApiChat
    THEN IF req.method = "POST" THEN "chat" ELSE "405"
    ELSE "404"

\* variant of Route that serves only / from the asset store
Route_OnlyRootIsAsset(req) ==
    IF req.path = PathWs THEN "ws"
    ELSE IF req.path = PathRoot THEN "assets"
    ELSE IF req.path = PathApiChat
    THEN IF req.method = "POST" THEN "chat" ELSE "405"
    ELSE "404"

\* the branch of fetch() a request takes
Route(req) ==
    IF req.path = PathWs THEN "ws"
    ELSE IF req.path = PathRoot \/ ~StartsWith(req.path, ApiPrefix) THEN "assets"
    ELSE IF req.path = PathApiChat
    THEN IF req.method = "POST" THEN "chat" ELSE "405"
    ELSE "404"

Response(status, body) == [status |-> status, body |-> body]

\* what the asset store may answer
AssetResponses == { Response(200, "asset"), Response(404, "asset not found") }

\* what the inference API may answer with returnRawResponse
RawResponses == { Response(200, "stream a"), Response(200, "stream b") }

\* new Response(JSON.stringify({ error: ... }), { status: 500, ... })
ErrorResponse == Response(500, [error |-> HTTP_ERROR])

(***************************************************************************)
(* State.                                                                  *)
(***************************************************************************)
VARIABLES
    sockets,     \* Worker: state of the server end of each accepted socket
    wsCalls,     \* Worker: message listeners suspended at `await env.AI.run`
    httpCalls,   \* Worker: chat requests suspended at `await env.AI.run`
    c2s,         \* frames in flight to the Worker, per socket
    s2c,         \* frames in flight from the Worker, per socket
    chatHistory,     \* client: the conversation
    isProcessing,    \* client: a send is in progress
    socket,          \* client: the socket made by the latest connectWebSocket()
    socketReady,     \* client: set by the open listener, cleared by the close listener
    readyState,      \* client: state of the client end of each socket
    timers,          \* client: pending setTimeout(connectWebSocket, 2000)
    userInput,       \* client: value of the input field
    disabled,        \* client: userInput.disabled and sendButton.disabled
    typing,          \* client: the typing indicator is visible
    chatLog,         \* client: the messages shown
    lastSend,        \* client: how the latest sendMessage() since the input was
                     \* last edited ended, "none" before it (observation)
    unresolved,      \* client: frames sent since isProcessing was last reset (observation)
    gotFrame,        \* client: the frame the message listener ran on last (observation)
    last,        \* what the latest step did (observation)
    threwOn,     \* sockets on which an inference call has thrown (observation)
    peer         \* who is at the other end of the Worker: "any" peer (SpecServer) or
                 \* the "browser" (Spec); "any server" when the browser is studied
                 \* with an arbitrary server (SpecClient)

serverVars == <<sockets, wsCalls, httpCalls, last, threwOn, peer>>
netVars == <<c2s, s2c>>
clientVars ==
    <<chatHistory, isProcessing, socket, socketReady, readyState, timers, userInput,
      disabled, typing, chatLog, lastSend, unresolved, gotFrame>>
vars ==
    <<sockets, wsCalls, httpCalls, c2s, s2c, last, threwOn, peer, chatHistory,
      isProcessing, socket, socketReady, readyState, timers, userInput, disabled,
      typing, chatLog, lastSend, unresolved, gotFrame>>

SocketIds == 1..MaxSockets

\* the observations are kept when the Worker is studied with an arbitrary peer
Observe(record) == IF peer = "any" THEN record ELSE last

\* the frames on the wire to the peer of socket s after `frames` got out; an
\* arbitrary peer takes each frame off the wire as it arrives
Wire(s, frames) == IF peer = "any" THEN s2c[s] ELSE s2c[s] \o frames

Idle == [op |-> "init"]

\* the calls of socket s that arrived before place i of wsCalls and have not
\* settled: the messages whose replies a reply sent now overtakes
Ahead(i, s) == Cardinality({ j \in 1..(i - 1) : wsCalls[j].sock = s })

RemoveAt(seq, i) == SubSeq(seq, 1, i - 1) \o SubSeq(seq, i + 1, Len(seq))

InitServer ==
    /\ sockets = [s \in SocketIds |-> "none"]
    /\ wsCalls = <<>>
    /\ httpCalls = 0
    /\ c2s = [s \in SocketIds |-> <<>>]
    /\ s2c = [s \in SocketIds |-> <<>>]
    /\ last = Idle
    /\ threwOn = {}

(***************************************************************************)
(* The Worker: fetch().                                                    *)
(***************************************************************************)
\* handleWebSocket without "Upgrade: websocket": 426, no socket
RejectUpgrade(req) ==
    /\ Route(req) = "ws"
    /\ req.upgrade # "websocket"
    /\ last' = Observe([op |-> "fetch", req |-> req, handler |-> "ws", by |-> "worker",
                        resp |-> Response(426, "Expected Upgrade: websocket")])
    /\ UNCHANGED <<sockets, wsCalls, httpCalls, threwOn, peer>>

\* handleWebSocket: a new socket pair, server end accepted, 101 with the client end
AcceptSocket(req, s) ==
    /\ Route(req) = "ws"
    /\ req.upgrade = "websocket"
    /\ sockets[s] = "none"
    /\ sockets' = [sockets EXCEPT ![s] = "open"]
    /\ last' = Observe([op |-> "fetch", req |-> req, handler |-> "ws", by |-> "worker",
                        resp |-> Response(101, s)])
    /\ UNCHANGED <<wsCalls, httpCalls, threwOn, peer>>

\* env.ASSETS.fetch(request): the asset store's answer is returned as it is
ServeAsset(req) ==
    /\ Route(req) = "assets"
    /\ \E resp \in AssetResponses :
         last' = Observe([op |-> "fetch", req |-> req, handler |-> "assets",
                          by |-> "assets", resp |-> resp])
    /\ UNCHANGED <<sockets, wsCalls, httpCalls, threwOn, peer>>

\* handleChatRequest up to the inference call, or its catch when that part throws
HandleChatRequest(req) ==
    /\ Route(req) = "chat"
    /\ LET prep == PrepareMessages(req.body) IN
       IF prep.threw
       THEN /\ last' = Observe([op |-> "fetch", req |-> req, handler |-> "chat",
                                by |-> "worker", resp |-> ErrorResponse])
            /\ UNCHANGED httpCalls
       ELSE /\ httpCalls < MaxHttpCalls
            /\ httpCalls' = httpCalls + 1
            /\ last' = Observe([op |-> "run", via |-> "http", req |-> req, src |-> req.body,
                                model |-> MODEL_ID, input |-> prep.v.input,
                                messages |-> prep.v.messages,
                                max_tokens |-> MAX_TOKENS, raw |-> TRUE])
    /\ UNCHANGED <<sockets, wsCalls, threwOn, peer>>

MethodNotAllowed(req) ==
    /\ Route(req) = "405"
    /\ last' = Observe([op |-> "fetch", req |-> req, handler |-> "router", by |-> "worker",
                        resp |-> Response(405, "Method not allowed")])
    /\ UNCHANGED <<sockets, wsCalls, httpCalls, threwOn, peer>>

NotFound(req) ==
    /\ Route(req) = "404"
    /\ last' = Observe([op |-> "fetch", req |-> req, handler |-> "router", by |-> "worker",
                        resp |-> Response(404, "Not found")])
    /\ UNCHANGED <<sockets, wsCalls, httpCalls, threwOn, peer>>

\* handleChatRequest: the inference call returns, its raw response is the answer
ChatReturns ==
    /\ httpCalls > 0
    /\ httpCalls' = httpCalls - 1
    /\ \E raw \in RawResponses :
         last' = Observe([op |-> "http_done", threw |-> FALSE, raw |-> raw, resp |-> raw])
    /\ UNCHANGED <<sockets, wsCalls, threwOn, peer>>

\* variant of ChatThrows whose catch leaves out the status option
ChatThrows_NoStatus ==
    /\ httpCalls > 0
    /\ httpCalls' = httpCalls - 1
    /\ last' = Observe([op |-> "http_done", threw |-> TRUE, raw |-> ErrorResponse,
                        resp |-> Response(200, [error |-> HTTP_ERROR])])
    /\ UNCHANGED <<sockets, wsCalls, threwOn, peer>>

\* handleChatRequest: the inference call throws, the catch answers 500
ChatThrows ==
    /\ httpCalls > 0
    /\ httpCalls' = httpCalls - 1
    /\ last' = Observe([op |-> "http_done", threw |-> TRUE, raw |-> ErrorResponse,
                        resp |-> ErrorResponse])
    /\ UNCHANGED <<sockets, wsCalls, threwOn, peer>>

(***************************************************************************)
(* The Worker: the message listener of a server socket.                    *)
(***************************************************************************)
\* server.send(frame): a frame reaches the peer only over an open socket; on
\* a closed one send throws or the frame is discarded.  The frames that got out.
ServerSend(s, frame) == IF sockets[s] = "open" THEN <<frame>> ELSE <<>>

\* variant of OnMessage whose catch sends nothing
OnMessage_NoCatch(s, data) ==
    /\ sockets[s] = "open"
    /\ LET prep == PrepareMessages(DecodeData(data)) IN
       IF prep.threw
       THEN /\ last' = Observe([op |-> "ws_done", sock |-> s, stage |-> "prepare",
                                threw |-> TRUE, result |-> AiNull,
                                open |-> sockets[s] = "open",
                                ahead |-> Ahead(Len(wsCalls) + 1, s), frames |-> <<>>])
            /\ UNCHANGED <<wsCalls, s2c>>
       ELSE /\ wsCalls' = Append(wsCalls, [sock |-> s])
            /\ last' = Observe([op |-> "run", via |-> "ws", src |-> DecodeData(data),
                                model |-> MODEL_ID, input |-> prep.v.input,
                                messages |-> prep.v.messages,
                                max_tokens |-> MAX_TOKENS, raw |-> FALSE])
            /\ UNCHANGED s2c
    /\ UNCHANGED <<sockets, httpCalls, threwOn, peer>>

\* the listener up to `await env.AI.run`, or its catch when that part throws
OnMessage(s, data) ==
    /\ sockets[s] = "open"
    /\ LET prep == PrepareMessages(DecodeData(data)) IN
       IF prep.threw
       THEN /\ s2c' = [s2c EXCEPT ![s] = Wire(s, ServerSend(s, ApologyFrame))]
            /\ last' = Observe([op |-> "ws_done", sock |-> s, stage |-> "prepare",
                                threw |-> TRUE, result |-> AiNull,
                                open |-> sockets[s] = "open",
                                ahead |-> Ahead(Len(wsCalls) + 1, s),
                                frames |-> ServerSend(s, ApologyFrame)])
            /\ UNCHANGED wsCalls
       ELSE /\ wsCalls' = Append(wsCalls, [sock |-> s])
            /\ last' = Observe([op |-> "run", via |-> "ws", src |-> DecodeData(data),
                                model |-> MODEL_ID, input |-> prep.v.input,
                                messages |-> prep.v.messages,
                                max_tokens |-> MAX_TOKENS, raw |-> FALSE])
            /\ UNCHANGED s2c
    /\ UNCHANGED <<sockets, httpCalls, threwOn, peer>>

\* variant of AiReturns in which a call waits for the calls that arrived
\* before it
AiReturns_InOrder(i, aiResponse) ==
    /\ i = 1
    /\ i \in 1..Len(wsCalls)
    /\ LET s == wsCalls[i].sock
           sent == ServerSend(s, ResponseFrame(ExtractText(aiResponse)))
       IN /\ s2c' = [s2c EXCEPT ![s] = Wire(s, sent)]
          /\ last' = Observe([op |-> "ws_done", sock |-> s, stage |-> "run",
                              threw |-> FALSE, result |-> aiResponse,
                              open |-> sockets[s] = "open", ahead |-> Ahead(i, s),
                              frames |-> sent])
    /\ wsCalls' = RemoveAt(wsCalls, i)
    /\ UNCHANGED <<sockets, httpCalls, c2s, threwOn, peer>>

\* the listener resumes with the inference result and sends { response: text }
AiReturns(i, aiResponse) ==
    /\ i \in 1..Len(wsCalls)
    /\ LET s == wsCalls[i].sock
           sent == ServerSend(s, ResponseFrame(ExtractText(aiResponse)))
       IN /\ s2c' = [s2c EXCEPT ![s] = Wire(s, sent)]
          /\ last' = Observe([op |-> "ws_done", sock |-> s, stage |-> "run",
                              threw |-> FALSE, result |-> aiResponse,
                              open |-> sockets[s] = "open", ahead |-> Ahead(i, s),
                              frames |-> sent])
    /\ wsCalls' = RemoveAt(wsCalls, i)
    /\ UNCHANGED <<sockets, httpCalls, c2s, threwOn, peer>>

\* variant of AiThrows whose catch also closes the socket
AiThrows_ClosesSocket(i) ==
    /\ i \in 1..Len(wsCalls)
    /\ LET s == wsCalls[i].sock
           sent == ServerSend(s, ApologyFrame)
       IN /\ s2c' = [s2c EXCEPT ![s] = Wire(s, sent)]
          /\ sockets' = [sockets EXCEPT ![s] = "closed"]
          /\ last' = Observe([op |-> "ws_done", sock |-> s, stage |-> "run",
                              threw |-> TRUE, result |-> AiNull,
                              open |-> sockets[s] = "open", ahead |-> Ahead(i, s),
                              frames |-> sent])
    /\ wsCalls' = RemoveAt(wsCalls, i)
    /\ threwOn' = IF peer = "any" THEN threwOn \cup {wsCalls[i].sock} ELSE threwOn
    /\ UNCHANGED <<httpCalls, c2s, peer>>

\* the inference call throws: the catch sends the apology frame
AiThrows(i) ==
    /\ i \in 1..Len(wsCalls)
    /\ LET s == wsCalls[i].sock
           sent == ServerSend(s, ApologyFrame)
       IN /\ s2c' = [s2c EXCEPT ![s] = Wire(s, sent)]
          /\ last' = Observe([op |-> "ws_done", sock |-> s, stage |-> "run",
                              threw |-> TRUE, result |-> AiNull,
                              open |-> sockets[s] = "open", ahead |-> Ahead(i, s),
                              frames |-> sent])
    /\ wsCalls' = RemoveAt(wsCalls, i)
    /\ threwOn' = IF peer = "any" THEN threwOn \cup {wsCalls[i].sock} ELSE threwOn
    /\ UNCHANGED <<sockets, httpCalls, c2s, peer>>

\* the connection ends: the server end is closed (its close listener does
\* nothing) and the frames in flight to the Worker are lost
ConnectionEnds(s) ==
    /\ sockets[s] = "open"
    /\ sockets' = [sockets EXCEPT ![s] = "closed"]
    /\ c2s' = [c2s EXCEPT ![s] = <<>>]
    /\ last' = Observe([op |-> "close", sock |-> s])
    /\ UNCHANGED <<wsCalls, httpCalls, threwOn, peer, s2c>>

(***************************************************************************)
(* The browser client (chat.js).                                           *)
(***************************************************************************)
GREETING == "Hello! I'm an LLM chat app powered by Cloudflare Workers AI. How can I help you today?"
RETRY_MS == 2000

\* what the user may have in the input field: a value is its characters
Blank == <<>>
Spaces == <<" ", "\n">>
PaddedHi == <<" ", "h", "i", " ">>
InputValues == { Blank, Spaces, PaddedHi }

IsSpace(c) == c \in { " ", "\n", "\t" }

RECURSIVE TrimStart(_)
TrimStart(v) ==
    IF v # <<>> /\ IsSpace(Head(v)) THEN TrimStart(Tail(v)) ELSE v

RECURSIVE TrimEnd(_)
TrimEnd(v) ==
    IF v # <<>> /\ IsSpace(v[Len(v)]) THEN TrimEnd(SubSeq(v, 1, Len(v) - 1)) ELSE v

\* userInput.value.trim()
Trim(v) == TrimEnd(TrimStart(v))

\* variant of HistoryFrame that carries the new message only
HistoryFrame_LastOnly(history) ==
    StringData(JsonText(JsonObject(ArrayProp(<<history[Len(history)]>>))))

\* JSON.stringify({ messages: chatHistory }), sent as a text frame
HistoryFrame(history) == StringData(JsonText(JsonObject(ArrayProp(history))))

\* the results of the inference API in the runs with the browser client
ClientAiResults == { AiString("hello"), AiString(""), AiNull }

\* if (data.response): is the property of a parsed frame truthy
Truthy(prop) ==
    IF prop.p = "string" THEN prop.s # ""
    ELSE prop.p \notin { "absent", "null" }

\* the observations of the client are kept when it is studied with an
\* arbitrary server
Probe(value, old) == IF peer = "any server" THEN value ELSE old

NoFrame == [seen |-> FALSE, frame |-> EmptyText]

UserTurns == Cardinality({ i \in 1..Len(chatHistory) : chatHistory[i].role = "user" })

\* the page is loaded: the script has run, connectWebSocket() included
InitClient ==
    /\ chatHistory = <<ChatMessage("assistant", GREETING)>>
    /\ isProcessing = FALSE
    /\ socket = 1
    /\ socketReady = FALSE
    /\ readyState = [s \in SocketIds |-> IF s = 1 THEN "connecting" ELSE "none"]
    /\ timers = 0
    /\ userInput = Blank
    /\ disabled = FALSE
    /\ typing = FALSE
    /\ chatLog = <<>>
    /\ lastSend = "none"
    /\ unresolved = 0
    /\ gotFrame = NoFrame

\* the user edits the input field
SetInput(v) ==
    /\ userInput' = v
    /\ lastSend' = "none"
    /\ UNCHANGED <<chatHistory, isProcessing, socket, socketReady, readyState, timers,
                   disabled, typing, chatLog, unresolved, gotFrame>>
    /\ UNCHANGED <<serverVars, netVars>>

\* variant of SendPermitted that does not look at socketReady
SendPermitted_IgnoresReady ==
    /\ Trim(userInput) # Blank
    /\ ~isProcessing

\* variant of SendPermitted without the in-flight guard
SendPermitted_IgnoresProcessing ==
    ~(Trim(userInput) = Blank \/ ~socketReady)

\* sendMessage() goes on: not (message === "" || isProcessing || !socketReady)
SendPermitted ==
    ~(Trim(userInput) = Blank \/ isProcessing \/ ~socketReady)

\* variant of SendMessage whose catch also pushes the apology to chatHistory
SendMessage_ApologyInHistory(throws) ==
    /\ UNCHANGED <<socket, socketReady, readyState, timers, gotFrame>>
    /\ UNCHANGED <<serverVars, s2c>>
    /\ IF ~SendPermitted
       THEN /\ lastSend' = "noop"
            /\ throws = FALSE
            /\ UNCHANGED <<chatHistory, isProcessing, userInput, disabled, typing,
                           chatLog, unresolved, c2s>>
       ELSE LET message == Trim(userInput)
                history == Append(chatHistory, ChatMessage("user", message))
            IN /\ UserTurns < MaxTurns
               /\ userInput' = Blank
               /\ IF throws
                  THEN /\ chatHistory' = Append(history, ChatMessage("assistant", APOLOGY))
                       /\ chatLog' = chatLog \o <<ChatMessage("user", message),
                                                 ChatMessage("assistant", APOLOGY)>>
                       /\ typing' = FALSE
                       /\ isProcessing' = FALSE
                       /\ disabled' = FALSE
                       /\ lastSend' = "threw"
                       /\ unresolved' = 0
                       /\ UNCHANGED c2s
                  ELSE /\ chatHistory' = history
                       /\ chatLog' = Append(chatLog, ChatMessage("user", message))
                       /\ typing' = TRUE
                       /\ isProcessing' = TRUE
                       /\ disabled' = TRUE
                       /\ lastSend' = "sent"
                       /\ unresolved' = unresolved + 1
                       /\ c2s' = [c2s EXCEPT ![socket] =
                                    IF sockets[socket] = "open"
                                    THEN Append(@, HistoryFrame(history)) ELSE @]

\* sendMessage(); socket.send either takes the frame or throws.  A frame
\* taken by a socket whose connection has ended is lost.
SendMessage(throws) ==
    /\ UNCHANGED <<socket, socketReady, readyState, timers, gotFrame>>
    /\ UNCHANGED <<serverVars, s2c>>
    /\ IF ~SendPermitted
       THEN /\ lastSend' = "noop"
            /\ throws = FALSE
            /\ UNCHANGED <<chatHistory, isProcessing, userInput, disabled, typing,
                           chatLog, unresolved, c2s>>
       ELSE LET message == Trim(userInput)
                history == Append(chatHistory, ChatMessage("user", message))
            IN /\ UserTurns < MaxTurns
               /\ userInput' = Blank
               /\ chatHistory' = history
               /\ IF throws
                  THEN /\ chatLog' = chatLog \o <<ChatMessage("user", message),
                                                 ChatMessage("assistant", APOLOGY)>>
                       /\ typing' = FALSE
                       /\ isProcessing' = FALSE
                       /\ disabled' = FALSE
                       /\ lastSend' = "threw"
                       /\ unresolved' = 0
                       /\ UNCHANGED c2s
                  ELSE /\ chatLog' = Append(chatLog, ChatMessage("user", message))
                       /\ typing' = TRUE
                       /\ isProcessing' = TRUE
                       /\ disabled' = TRUE
                       /\ lastSend' = "sent"
                       /\ unresolved' = unresolved + 1
                       /\ c2s' = [c2s EXCEPT ![socket] =
                                    IF sockets[socket] = "open"
                                    THEN Append(@, HistoryFrame(history)) ELSE @]

\* variant of ConnectWebSocket run by an interval instead of a one-shot timer
ConnectWebSocket_Interval ==
    /\ timers > 0
    /\ socket < MaxSockets
    /\ socket' = socket + 1
    /\ readyState' = [readyState EXCEPT ![socket + 1] = "connecting"]
    /\ UNCHANGED <<chatHistory, isProcessing, socketReady, userInput, disabled, typing,
                   chatLog, lastSend, unresolved, gotFrame, timers>>
    /\ UNCHANGED <<serverVars, netVars>>

\* connectWebSocket(), run by the timer of a close listener
ConnectWebSocket ==
    /\ timers > 0
    /\ socket < MaxSockets
    /\ timers' = timers - 1
    /\ socket' = socket + 1
    /\ readyState' = [readyState EXCEPT ![socket + 1] = "connecting"]
    /\ UNCHANGED <<chatHistory, isProcessing, socketReady, userInput, disabled, typing,
                   chatLog, lastSend, unresolved, gotFrame>>
    /\ UNCHANGED <<serverVars, netVars>>

\* the Worker answers the upgrade request of a connecting socket
ServerAccepts(s) ==
    /\ readyState[s] = "connecting"
    /\ AcceptSocket(UpgradeRequest, s)
    /\ UNCHANGED netVars
    /\ UNCHANGED clientVars

\* the open listener
OnOpen(s) ==
    /\ readyState[s] = "connecting"
    /\ sockets[s] # "none"
    /\ readyState' = [readyState EXCEPT ![s] = "open"]
    /\ socketReady' = TRUE
    /\ UNCHANGED <<chatHistory, isProcessing, socket, timers, userInput, disabled,
                   typing, chatLog, lastSend, unresolved, gotFrame>>
    /\ UNCHANGED <<serverVars, netVars>>

\* variant of OnClose that sets no reconnect timer
OnClose_NoRetry(s) ==
    /\ readyState[s] \in { "connecting", "open" }
    /\ sockets[s] # "open"
    /\ readyState' = [readyState EXCEPT ![s] = "closed"]
    /\ socketReady' = FALSE
    /\ s2c' = [s2c EXCEPT ![s] = <<>>]
    /\ UNCHANGED <<chatHistory, isProcessing, socket, userInput, disabled, typing,
                   chatLog, lastSend, unresolved, gotFrame, timers>>
    /\ UNCHANGED <<serverVars, c2s>>

\* the close listener: it runs when the connection has ended or could not be
\* made; frames not yet delivered to the socket are never delivered
OnClose(s) ==
    /\ readyState[s] \in { "connecting", "open" }
    /\ sockets[s] # "open"
    /\ readyState' = [readyState EXCEPT ![s] = "closed"]
    /\ socketReady' = FALSE
    /\ timers' = timers + 1
    /\ s2c' = [s2c EXCEPT ![s] = <<>>]
    /\ UNCHANGED <<chatHistory, isProcessing, socket, userInput, disabled, typing,
                   chatLog, lastSend, unresolved, gotFrame>>
    /\ UNCHANGED <<serverVars, c2s>>

\* variant of OnFrame that leaves the controls disabled
OnFrame_KeepsDisabled(s) ==
    /\ readyState[s] = "open"
    /\ s2c[s] # <<>>
    /\ s2c' = [s2c EXCEPT ![s] = Tail(@)]
    /\ LET parsed == JsonParse(Head(s2c[s]))
           shown == ~parsed.threw /\ parsed.v.k # "null" /\ Truthy(parsed.v.response)
           reply == ChatMessage("assistant", parsed.v.response.s)
       IN /\ chatLog' = IF shown THEN Append(chatLog, reply) ELSE chatLog
          /\ chatHistory' = IF shown THEN Append(chatHistory, reply) ELSE chatHistory
    /\ typing' = FALSE
    /\ isProcessing' = FALSE
    /\ unresolved' = 0
    /\ gotFrame' = Probe([seen |-> TRUE, frame |-> Head(s2c[s])], gotFrame)
    /\ UNCHANGED <<socket, socketReady, readyState, timers, userInput, lastSend,
                   disabled>>
    /\ UNCHANGED <<serverVars, c2s>>

\* variant of OnFrame whose reset is inside the try block, after the parse
OnFrame_ResetInTry(s) ==
    /\ readyState[s] = "open"
    /\ s2c[s] # <<>>
    /\ s2c' = [s2c EXCEPT ![s] = Tail(@)]
    /\ LET parsed == JsonParse(Head(s2c[s]))
           ok == ~parsed.threw /\ parsed.v.k # "null"
           shown == ok /\ Truthy(parsed.v.response)
           reply == ChatMessage("assistant", parsed.v.response.s)
       IN /\ chatLog' = IF shown THEN Append(chatLog, reply) ELSE chatLog
          /\ chatHistory' = IF shown THEN Append(chatHistory, reply) ELSE chatHistory
          /\ typing' = IF ok THEN FALSE ELSE typing
          /\ isProcessing' = IF ok THEN FALSE ELSE isProcessing
          /\ disabled' = IF ok THEN FALSE ELSE disabled
          /\ unresolved' = IF ok THEN 0 ELSE unresolved
    /\ gotFrame' = Probe([seen |-> TRUE, frame |-> Head(s2c[s])], gotFrame)
    /\ UNCHANGED <<socket, socketReady, readyState, timers, userInput, lastSend>>
    /\ UNCHANGED <<serverVars, c2s>>

\* the message listener, on the next frame delivered to socket s
OnFrame(s) ==
    /\ readyState[s] = "open"
    /\ s2c[s] # <<>>
    /\ s2c' = [s2c EXCEPT ![s] = Tail(@)]
    /\ LET parsed == JsonParse(Head(s2c[s]))
           shown == ~parsed.threw /\ parsed.v.k # "null" /\ Truthy(parsed.v.response)
           reply == ChatMessage("assistant", parsed.v.response.s)
       IN /\ chatLog' = IF shown THEN Append(chatLog, reply) ELSE chatLog
          /\ chatHistory' = IF shown THEN Append(chatHistory, reply) ELSE chatHistory
    /\ typing' = FALSE
    /\ isProcessing' = FALSE
    /\ disabled' = FALSE
    /\ unresolved' = 0
    /\ gotFrame' = Probe([seen |-> TRUE, frame |-> Head(s2c[s])], gotFrame)
    /\ UNCHANGED <<socket, socketReady, readyState, timers, userInput, lastSend>>
    /\ UNCHANGED <<serverVars, c2s>>

(***************************************************************************)
(* Spec: the browser client, the network and the Worker's socket listener. *)
(***************************************************************************)
User ==
    \/ \E v \in InputValues : SetInput(v)
    \/ \E throws \in BOOLEAN : SendMessage(throws)

Connection ==
    \/ ConnectWebSocket
    \/ \E s \in SocketIds : ServerAccepts(s)
    \/ \E s \in SocketIds : OnOpen(s)
    \/ \E s \in SocketIds : OnClose(s)

\* the connection of a socket ends (network failure, Worker eviction)
ConnectionDrops ==
    /\ \E s \in SocketIds : ConnectionEnds(s)
    /\ UNCHANGED clientVars

\* the Worker's listener runs on the next frame of the client
ServerReceives ==
    /\ \E s \in SocketIds :
         /\ c2s[s] # <<>>
         /\ OnMessage(s, Head(c2s[s]))
         /\ c2s' = [c2s EXCEPT ![s] = Tail(@)]
    /\ UNCHANGED clientVars

InferenceSettles ==
    /\ \E i \in 1..Len(wsCalls) :
         \/ \E r \in ClientAiResults : AiReturns(i, r)
         \/ AiThrows(i)
    /\ UNCHANGED clientVars

ClientReceives == \E s \in SocketIds : OnFrame(s)

Init == InitServer /\ InitClient /\ peer = "browser"

Next ==
    \/ User
    \/ Connection
    \/ ConnectionDrops
    \/ ServerReceives
    \/ InferenceSettles
    \/ ClientReceives

Spec == Init /\ [][Next]_vars

(***************************************************************************)
(* SpecLive: Spec with the scheduling the platform guarantees.  A timer    *)
(* that was set fires, an upgrade request is answered, the events of a     *)
(* socket reach its listeners, a frame on the wire reaches the Worker and  *)
(* an inference call settles.  The user and the failures of the network    *)
(* are under no obligation.                                                *)
(***************************************************************************)
Handshake == \E s \in SocketIds : ServerAccepts(s)
Opens == \E s \in SocketIds : OnOpen(s)
Closes == \E s \in SocketIds : OnClose(s)

Fairness ==
    /\ WF_vars(ConnectWebSocket)
    /\ WF_vars(Handshake)
    /\ WF_vars(Opens)
    /\ WF_vars(Closes)
    /\ WF_vars(ServerReceives)
    /\ WF_vars(InferenceSettles)
    /\ WF_vars(ClientReceives)

SpecLive == Init /\ [][Next]_vars /\ Fairness

(***************************************************************************)
(* SpecClient: the browser client with an arbitrary server at /ws, which   *)
(* accepts or refuses the socket, reads the frames of the client and sends *)
(* any frame at any time.                                                  *)
(***************************************************************************)
\* the frames a server can send: no JSON, JSON null, an object without
\* `response`, an empty and a non-empty response
ServerFrames ==
    { GarbageText, JsonText(JsonNull),
      JsonText([k |-> "object", response |-> Absent]),
      ResponseFrame(""), ResponseFrame("hello") }

\* the assistant messages of chatHistory after the greeting
Replies ==
    Cardinality({ i \in 1..Len(chatHistory) : chatHistory[i].role = "assistant" }) - 1

\* the server reads the next frame of the client
ServerTakes ==
    /\ \E s \in SocketIds :
         /\ c2s[s] # <<>>
         /\ c2s' = [c2s EXCEPT ![s] = Tail(@)]
    /\ UNCHANGED <<serverVars, s2c, clientVars>>

\* the server sends a frame over an open socket
ServerSends ==
    /\ \E s \in SocketIds, frame \in ServerFrames :
         /\ sockets[s] = "open"
         /\ Replies + Len(s2c[s]) < MaxReplies
         /\ s2c' = [s2c EXCEPT ![s] = Append(@, frame)]
    /\ UNCHANGED <<serverVars, c2s, clientVars>>

InitC == InitServer /\ InitClient /\ peer = "any server"

NextClient ==
    \/ User
    \/ Connection
    \/ ConnectionDrops
    \/ ServerTakes
    \/ ServerSends
    \/ ClientReceives

SpecClient == InitC /\ [][NextClient]_vars

(***************************************************************************)
(* SpecServer: the Worker and an arbitrary peer.                           *)
(***************************************************************************)
Fetch ==
    /\ UNCHANGED clientVars
    /\ \E req \in Requests :
         \/ RejectUpgrade(req)
         \/ \E s \in 1..MaxPeerSockets :
              /\ \A r \in 1..(s - 1) : sockets[r] # "none"
              /\ AcceptSocket(req, s)
         \/ ServeAsset(req)
         \/ HandleChatRequest(req)
         \/ MethodNotAllowed(req)
         \/ NotFound(req)
    /\ UNCHANGED netVars

ChatDone ==
    /\ ChatReturns \/ ChatThrows
    /\ UNCHANGED netVars
    /\ UNCHANGED clientVars

\* the peer sends a frame and the Worker's listener runs on it
PeerSends ==
    \E s \in SocketIds, data \in WsData :
        /\ Len(wsCalls) < MaxInflight
        /\ OnMessage(s, data)
        /\ UNCHANGED c2s
        /\ UNCHANGED clientVars

InferenceDone ==
    /\ UNCHANGED clientVars
    /\ \E i \in 1..Len(wsCalls) :
         \/ \E r \in AiResults : AiReturns(i, r)
         \/ AiThrows(i)

PeerCloses ==
    /\ UNCHANGED clientVars
    /\ \E s \in SocketIds : ConnectionEnds(s)

InitS == InitServer /\ InitClient /\ peer = "any"

NextServer ==
    \/ Fetch
    \/ ChatDone
    \/ PeerSends
    \/ InferenceDone
    \/ PeerCloses

SpecServer == InitS /\ [][NextServer]_vars

(***************************************************************************)
(* SpecSocket: the Worker's server sockets alone, with an arbitrary peer   *)
(* that sends further messages while inference calls are pending.          *)
(***************************************************************************)
Upgrades ==
    /\ \E s \in 1..MaxPeerSockets :
         /\ \A r \in 1..(s - 1) : sockets[r] # "none"
         /\ AcceptSocket(UpgradeRequest, s)
    /\ UNCHANGED netVars
    /\ UNCHANGED clientVars

PeerSendsMore ==
    \E s \in SocketIds, data \in WsData :
        /\ Len(wsCalls) < MaxPending
        /\ OnMessage(s, data)
        /\ UNCHANGED c2s
        /\ UNCHANGED clientVars

NextSocket ==
    \/ Upgrades
    \/ PeerSendsMore
    \/ InferenceDone
    \/ PeerCloses

SpecSocket == InitS /\ [][NextSocket]_vars

(***************************************************************************)
(* Properties of the Worker, checked under SpecServer.                     *)
(***************************************************************************)
NoSystemIn(list) == \A i \in 1..Len(list) : list[i].role # "system"

CountOf(list, m) == Cardinality({ i \in 1..Len(list) : list[i] = m })

\* C2: for a message list without a system entry, either handler forwards
\* exactly one default system message at index 0, followed by the original
\* entries in their original order.
C2_PrependsDefaultSystem ==
    (last.op = "run" /\ NoSystemIn(last.input)) =>
        /\ Len(last.messages) = Len(last.input) + 1
        /\ last.messages[1] = [role |-> "system", content |-> SYSTEM_PROMPT]
        /\ \A i \in 1..Len(last.input) : last.messages[i + 1] = last.input[i]
        /\ CountOf(last.messages, [role |-> "system", content |-> SYSTEM_PROMPT]) = 1

C2_Witness ==
    /\ last.op = "run"
    /\ last.via = "http"
    /\ last.input = <<ChatMessage("user", "hi"), ChatMessage("assistant", "yo")>>
    /\ last.messages[1] = DefaultSystemMessage

\* C3: a message list that has a system entry at any position is forwarded
\* unchanged by either handler.
C3_KeepsListWithSystem ==
    (last.op = "run" /\ ~NoSystemIn(last.input)) => last.messages = last.input

C3_Witness ==
    /\ last.op = "run"
    /\ last.via = "ws"
    /\ last.input = <<ChatMessage("user", "hi"), ChatMessage("system", "Be terse.")>>
    /\ last.messages = last.input

\* C4: when the inference call of a WebSocket message throws, the Worker
\* sends exactly the apology frame and leaves the socket open; a later
\* message on that socket gets its own reply frame.
C4_ThrowKeepsSocket ==
    /\ (last.op = "ws_done" /\ last.stage = "run" /\ last.threw /\ last.open) =>
          /\ last.frames = <<JsonText([k |-> "object", response |-> StringProp(APOLOGY)])>>
          /\ sockets[last.sock] = "open"
    /\ (last.op = "ws_done" /\ ~last.threw /\ last.open /\ last.sock \in threwOn) =>
          /\ Len(last.frames) = 1
          /\ last.frames[1].v.response.p = "string"
          /\ last.frames[1].v.response.s # APOLOGY
          /\ sockets[last.sock] = "open"

C4_Witness ==
    /\ last.op = "ws_done"
    /\ ~last.threw
    /\ last.open
    /\ last.sock \in threwOn
    /\ last.frames = <<ResponseFrame("hello")>>

\* C5: the router classifies a request by path and method: /ws first, then
\* / and every path outside /api/ to the asset store, then POST /api/chat to
\* the chat handler, any other method on /api/chat 405, every other path 404.
C5_RouterPrecedence ==
    LET Handled == last.op = "fetch" \/ (last.op = "run" /\ last.via = "http")
        req == last.req
        IsAsset == req.path = PathRoot \/ ~StartsWith(req.path, ApiPrefix)
    IN Handled =>
        /\ req.path = PathWs => (last.op = "fetch" /\ last.handler = "ws")
        /\ (req.path # PathWs /\ IsAsset) =>
              (last.op = "fetch" /\ last.handler = "assets" /\ last.by = "assets"
               /\ last.resp \in AssetResponses)
        /\ (req.path # PathWs /\ ~IsAsset /\ req.path = PathApiChat /\ req.method = "POST") =>
              (last.op = "run" \/ last.handler = "chat")
        /\ (req.path # PathWs /\ ~IsAsset /\ req.path = PathApiChat /\ req.method # "POST") =>
              (last.op = "fetch" /\ last.handler = "router" /\ last.resp.status = 405)
        /\ (req.path # PathWs /\ ~IsAsset /\ req.path # PathApiChat) =>
              (last.op = "fetch" /\ last.handler = "router" /\ last.resp.status = 404)

C5_Witness ==
    /\ last.op = "fetch"
    /\ last.req.path = PathApiOther
    /\ last.req.method = "POST"
    /\ last.resp.status = 404

\* C6 as stated: GET /api/chat yields 405 from the router and GET /unknown
\* yields 404 from the router.
C6_Original ==
    (last.op = "fetch" /\ last.req.method = "GET") =>
        /\ last.req.path = PathApiChat => (last.by = "worker" /\ last.resp.status = 405)
        /\ last.req.path = PathUnknown => (last.by = "worker" /\ last.resp.status = 404)

\* C6 (amended): GET /api/chat yields 405 from the router; GET /unknown is
\* outside /api/ and is answered by the asset store, whatever that answers;
\* the router's own 404 is for paths under /api/ other than /api/chat.
C6_UnknownGoesToAssets ==
    (last.op = "fetch" /\ last.req.method = "GET") =>
        /\ last.req.path = PathApiChat => (last.by = "worker" /\ last.resp.status = 405)
        /\ last.req.path = PathUnknown => (last.by = "assets" /\ last.resp \in AssetResponses)
        /\ last.req.path = PathApiOther => (last.by = "worker" /\ last.resp.status = 404)

C6_Witness ==
    /\ last.op = "fetch"
    /\ last.req.method = "GET"
    /\ last.req.path = PathUnknown
    /\ last.by = "assets"
    /\ last.resp.status = 200

IsChatPost(req) == req.path = PathApiChat /\ req.method = "POST"

\* C7 as stated: a POST to /api/chat with a body that is not JSON or is empty
\* is handled as messages = []: no failure, and the list forwarded is exactly
\* the default system message.
C7_Original ==
    LET Handled == last.op = "fetch" \/ (last.op = "run" /\ last.via = "http") IN
    (Handled /\ IsChatPost(last.req) /\ last.req.body \in { EmptyText, GarbageText }) =>
        /\ last.op = "run"
        /\ last.messages = <<DefaultSystemMessage>>

\* C7 (amended): a body that is not JSON or is empty makes the parse throw:
\* the answer is the 500 error and nothing is forwarded.  A body that is JSON,
\* not null and without a `messages` property is handled as messages = []:
\* the list forwarded is exactly the default system message.
C7_DefaultOnlyForJson ==
    LET Handled == last.op = "fetch" \/ (last.op = "run" /\ last.via = "http") IN
    (Handled /\ IsChatPost(last.req)) =>
        /\ last.req.body \in { EmptyText, GarbageText } =>
              /\ last.op = "fetch"
              /\ last.resp = Response(500, [error |-> "Failed to process request"])
        /\ last.req.body \in { JsonText(JsonObject(Absent)), JsonText(JsonNumber) } =>
              /\ last.op = "run"
              /\ last.input = <<>>
              /\ last.messages = <<[role |-> "system", content |-> SYSTEM_PROMPT]>>

C7_Witness ==
    /\ last.op = "run"
    /\ last.via = "http"
    /\ last.req.body = JsonText(JsonObject(Absent))
    /\ last.messages = <<DefaultSystemMessage>>

\* the bodies on which handleChatRequest throws before the inference call
ParseThrows(body) ==
    \/ body.t # "json"
    \/ body.v.k = "null"
    \/ (body.v.k = "object" /\ body.v.messages.p = "null")

\* C8: an exception while parsing the body or while calling the inference
\* API is answered with status 500 and the JSON body
\* {"error":"Failed to process request"}; on success the raw response of the
\* inference API is the answer, unmodified.
C8_HttpErrorsAre500 ==
    LET Handled == last.op = "fetch" \/ (last.op = "run" /\ last.via = "http") IN
    /\ (Handled /\ IsChatPost(last.req) /\ ParseThrows(last.req.body)) =>
          /\ last.op = "fetch"
          /\ last.resp = Response(500, [error |-> "Failed to process request"])
    /\ (Handled /\ IsChatPost(last.req) /\ ~ParseThrows(last.req.body)) =>
          last.op = "run"
    /\ (last.op = "http_done" /\ last.threw) =>
          last.resp = Response(500, [error |-> "Failed to process request"])
    /\ (last.op = "http_done" /\ ~last.threw) =>
          (last.resp = last.raw /\ last.raw \in RawResponses)

C8_Witness ==
    /\ last.op = "http_done"
    /\ last.threw
    /\ last.resp.status = 500

\* C9: a message event on a server socket that is open when the listener
\* replies is answered by exactly one frame: { response: <text> } when the
\* inference call returned, the apology frame when a step threw.
C9_OneFramePerMessage ==
    (last.op = "ws_done" /\ last.open) =>
        /\ Len(last.frames) = 1
        /\ last.frames[1].t = "json"
        /\ last.frames[1].v.response.p = "string"
        /\ last.threw => last.frames[1].v.response.s = APOLOGY
        /\ ~last.threw => last.frames[1].v.response.s # APOLOGY

C9_Witness ==
    /\ last.op = "ws_done"
    /\ last.open
    /\ last.stage = "prepare"
    /\ last.threw
    /\ last.frames = <<ApologyFrame>>

\* C10: the reply text is the result itself if it is a string, else its
\* string field `response`, else its string field `result`, else the
\* placeholder "[No response]".
C10_ReplyTextPrecedence ==
    (last.op = "ws_done" /\ ~last.threw /\ last.open) =>
        LET r == last.result
            text == last.frames[1].v.response.s
        IN /\ r.k = "string" => text = r.s
           /\ (r.k = "object" /\ r.response.p = "string") => text = r.response.s
           /\ (r.k = "object" /\ r.response.p # "string" /\ r.result.p = "string") =>
                 text = r.result.s
           /\ (r.k = "object" /\ r.response.p # "string" /\ r.result.p # "string") =>
                 text = "[No response]"
           /\ r.k \notin { "string", "object" } => text = "[No response]"

C10_Witness ==
    /\ last.op = "ws_done"
    /\ ~last.threw
    /\ last.open
    /\ last.result = AiObject(NumberProp, StringProp("from result"))
    /\ last.frames = <<ResponseFrame("from result")>>

(***************************************************************************)
(* Properties of the browser client, checked under Spec.                   *)
(***************************************************************************)
\* C1: at most one send is outstanding: from the frame sendMessage() sent
\* until the message listener or a failed send resets isProcessing, no call
\* of sendMessage() sends another frame.
C1_OneOutstandingSend ==
    /\ unresolved <= 1
    /\ isProcessing <=> unresolved = 1

C1_Witness ==
    /\ isProcessing
    /\ unresolved = 1
    /\ lastSend = "noop"
    /\ socketReady
    /\ Trim(userInput) # Blank

(***************************************************************************)
(* Claims about the browser client with an arbitrary server (SpecClient).  *)
(***************************************************************************)
\* a step of sendMessage() that changed the state: lastSend changes in no
\* other step but an edit of the input, which makes it "none"
SendStep == lastSend' # lastSend /\ lastSend' # "none"

\* C11: sendMessage() does nothing whenever the trimmed input is empty, or
\* isProcessing is true, or socketReady is false: no frame is transmitted
\* and chatHistory, isProcessing, the input field, the typing indicator, the
\* enabled state of the controls and the chat log stay as they were.
C11_NoOpWhenNotPermitted ==
    [][ ((Trim(userInput) = Blank \/ isProcessing \/ ~socketReady) /\ SendStep)
        => /\ lastSend' = "noop"
           /\ UNCHANGED <<c2s, chatHistory, isProcessing, userInput, typing,
                          disabled, chatLog>> ]_vars

C11_Witness ==
    /\ lastSend = "noop"
    /\ ~socketReady
    /\ ~isProcessing
    /\ Trim(userInput) # Blank
    /\ Len(chatHistory) = 1

\* is list `a` the beginning of list `b`
IsPrefix(a, b) == Len(a) <= Len(b) /\ SubSeq(b, 1, Len(a)) = a

\* the messages a frame of the client carries, as the server parses them
CarriedMessages(frame) == JsonParse(DecodeData(frame)).v.messages.items

\* C12: every step keeps the entries of chatHistory and their order; every
\* permitted send appends the trimmed input as a user message to chatHistory,
\* and the frame it hands to the connection carries the whole chatHistory in
\* order, the new user message last.
C12_FrameCarriesWholeHistory ==
    [][ /\ IsPrefix(chatHistory, chatHistory')
        /\ (SendStep /\ lastSend' # "noop")
           => chatHistory' = Append(chatHistory, ChatMessage("user", Trim(userInput)))
        /\ (SendStep /\ lastSend' = "sent" /\ sockets[socket] = "open")
           => /\ Len(c2s'[socket]) = Len(c2s[socket]) + 1
              /\ IsPrefix(c2s[socket], c2s'[socket])
              /\ LET carried == CarriedMessages(c2s'[socket][Len(c2s'[socket])])
                 IN /\ carried = chatHistory'
                    /\ carried[Len(carried)] = ChatMessage("user", Trim(userInput)) ]_vars

C12_Witness ==
    /\ lastSend = "sent"
    /\ c2s[socket] # <<>>
    /\ Len(chatHistory) = 4
    /\ chatHistory[3].role = "assistant"
    /\ CarriedMessages(c2s[socket][Len(c2s[socket])]) = chatHistory

\* a step of the message listener on socket s: the only step that takes the
\* first frame off a socket and leaves the socket open
FrameStep(s) ==
    /\ s2c[s] # <<>>
    /\ s2c'[s] = Tail(s2c[s])
    /\ readyState'[s] = "open"

\* C13: whatever frame the message listener runs on (no JSON, JSON without a
\* response, JSON with one), it ends with the typing indicator hidden,
\* isProcessing false and the input controls enabled.
C13_EveryFrameUnlocks ==
    [][ \A s \in SocketIds :
          FrameStep(s) => (~typing' /\ ~isProcessing' /\ ~disabled') ]_vars

C13_Witness ==
    /\ gotFrame.seen
    /\ JsonParse(gotFrame.frame).threw
    /\ lastSend = "sent"
    /\ ~typing /\ ~isProcessing /\ ~disabled

\* does a frame parse as a JSON object whose `response` is a string
HasStringResponse(frame) ==
    LET parsed == JsonParse(frame)
    IN /\ ~parsed.threw
       /\ parsed.v.k = "object"
       /\ parsed.v.response.p = "string"

ResponseOf(frame) == JsonParse(frame).v.response.s

\* C14: every received frame that parses as JSON and has a string `response`,
\* the empty string included, is appended as an assistant message to the
\* chat log and to chatHistory.
C14_EveryResponseIsAppended ==
    [][ \A s \in SocketIds :
          (FrameStep(s) /\ HasStringResponse(Head(s2c[s])))
          => LET reply == ChatMessage("assistant", ResponseOf(Head(s2c[s])))
             IN /\ chatLog' = Append(chatLog, reply)
                /\ chatHistory' = Append(chatHistory, reply) ]_vars

(***************************************************************************)
(* Claims about the connection of the client (Spec, SpecLive).             *)
(***************************************************************************)
\* the close listener of socket s has just run
CloseStep(s) == readyState[s] # "closed" /\ readyState'[s] = "closed"

\* C15: socketReady is true only while the current socket is between its
\* open event and its close event; every close event sets socketReady false
\* and sets one reconnect timer; a timer that is set can always fire (there
\* is no retry counter), and every close is eventually followed by a new
\* connection attempt.
C15_ReconnectCycle ==
    /\ [](socketReady => readyState[socket] = "open")
    /\ [][ \A s \in SocketIds :
             CloseStep(s) => (~socketReady' /\ timers' = timers + 1) ]_vars
    /\ []((timers > 0 /\ socket < MaxSockets) => ENABLED ConnectWebSocket)
    /\ \A s \in 1..(MaxSockets - 1) :
         (readyState[s] = "closed") ~> (socket > s /\ readyState[s + 1] # "none")

C15_Witness ==
    /\ readyState[1] = "closed"
    /\ socket = 2
    /\ readyState[2] = "open"
    /\ socketReady
    /\ timers = 0

(***************************************************************************)
(* Claims about a failing send of the browser client (SpecClient).         *)
(***************************************************************************)
\* C16: when socket.send throws inside sendMessage(), the chat log gets the
\* user message followed by the fixed apology, no frame is transmitted,
\* isProcessing is false, the typing indicator hidden and the controls enabled
\* when the handler ends, and chatHistory gets the user message only, not the
\* apology.
C16_SendThrowsLocalApology ==
    [][ (SendStep /\ lastSend' = "threw")
        => LET userMessage == ChatMessage("user", Trim(userInput))
           IN /\ chatLog' = chatLog \o <<userMessage, ChatMessage("assistant", APOLOGY)>>
              /\ chatHistory' = Append(chatHistory, userMessage)
              /\ ~isProcessing' /\ ~typing' /\ ~disabled'
              /\ UNCHANGED <<c2s, s2c>> ]_vars

C16_Witness ==
    /\ lastSend = "threw"
    /\ chatLog[Len(chatLog)] = ChatMessage("assistant", APOLOGY)
    /\ chatHistory[Len(chatHistory)].role = "user"
    /\ ~isProcessing /\ ~typing /\ ~disabled
    /\ ~gotFrame.seen

(***************************************************************************)
(* Claims about whole runs of the client with the Worker (SpecLive).       *)
(***************************************************************************)
\* C17: in every run in which the Worker answers the messages it receives
\* and the client gets connected again and again, whenever isProcessing
\* becomes true it eventually becomes false again, also when the socket
\* closes and reconnects while the reply is pending.
C17_EveryTurnResolves ==
    ([]<>socketReady) => (isProcessing ~> ~isProcessing)

(***************************************************************************)
(* Claims about the state of the client between its handlers (Spec).       *)
(***************************************************************************)
\* C18: between the handlers of the client (send, message, open, close,
\* timer), isProcessing is true exactly when the input controls are disabled
\* and exactly when the typing indicator is visible.
C18_GatingStateAgrees ==
    /\ isProcessing <=> disabled
    /\ isProcessing <=> typing

C18_Witness ==
    /\ isProcessing /\ disabled /\ typing
    /\ readyState[1] = "closed"
    /\ readyState[2] = "open"
    /\ chatHistory[Len(chatHistory)].role = "user"
    /\ Len(chatHistory) = 4

\* the sockets of the client that are connecting or open
LiveSockets == { s \in SocketIds : readyState[s] \in { "connecting", "open" } }

\* C19: at any time the live sockets and the pending reconnect timers of
\* the client are at most one altogether, a live socket is the most recently
\* created one, and a frame is only ever transmitted on the most recently
\* created socket.
C19_OneSocketOrOneTimer ==
    /\ [](/\ Cardinality(LiveSockets) + timers <= 1
          /\ LiveSockets \subseteq { socket })
    /\ [][ \A s \in SocketIds :
             Len(c2s'[s]) > Len(c2s[s]) => (s = socket /\ s = socket') ]_vars

C19_Witness ==
    /\ timers = 1
    /\ LiveSockets = {}
    /\ readyState[1] = "closed"
    /\ readyState[2] = "closed"
    /\ lastSend = "sent"

(***************************************************************************)
(* Claims about concurrent messages on one server socket (SpecSocket).     *)
(***************************************************************************)
\* C20: a message that arrives while the inference call of an earlier one is
\* pending is taken at once, so calls of one socket are pending together; any
\* pending call can be the next to settle, whatever its place in the order of
\* arrival, and the step in which a call settles sends its reply: replies go
\* out in the order the calls settle, not in the order the messages arrived.
C20_NoReplyOrder ==
    /\ \A s \in SocketIds :
         sockets[s] = "open"
         => ENABLED OnMessage(s, StringData(JsonText(JsonObject(ArrayProp(<<>>)))))
    /\ \A i \in 1..Len(wsCalls) :
         /\ ENABLED AiReturns(i, AiString("hello"))
         /\ ENABLED AiThrows(i)
    /\ (last.op = "ws_done" /\ last.open) => Len(last.frames) = 1

C20_Witness ==
    /\ last.op = "ws_done"
    /\ last.stage = "run"
    /\ last.ahead = 1
    /\ last.open
    /\ last.frames = <<ResponseFrame("hello")>>
    /\ Len(wsCalls) = 1
    /\ wsCalls[1].sock = last.sock

====
